---- MODULE Spec2Model ----
(***************************************************************************)
(* SmoothAHAplot: validation of the segment mapping (AHASegmentalValues)   *)
(* and the interpolation of 17 or 18 segment values to the dense polar     *)
(* grid (AHAInterpolation).                                                *)
(*                                                                         *)
(* Numbers.  The program computes in floating point; the model computes    *)
(* the same expressions in exact rational arithmetic.  A number is a       *)
(* record [i, n, d] that stands for i + n/d with 0 <= n < d, so that every *)
(* intermediate value stays within 32-bit integers.                        *)
(***************************************************************************)
EXTENDS Integers, Sequences, FiniteSets, TLC

(***************************************************************************)
(* Configuration (PLOT_COMPONENTS, AHA_FEATURES, BIOMARKER_FEATURES)       *)
(***************************************************************************)
AngularResolution == 768

RadialResolution == 100

\* radial levels in hundredths: (0, 0.33, 0.55, 0.85, 1) and (0, 0.28, 0.5, 0.8, 1)
LevelScale == 100

Levels17 == <<0, 33, 55, 85, 100>>

Levels18 == <<0, 28, 50, 80, 100>>

Names17 ==
  << "Basal Anterior", "Basal Anteroseptal", "Basal Inferoseptal",
     "Basal Inferior", "Basal Inferolateral", "Basal Anterolateral",
     "Mid Anterior", "Mid Anteroseptal", "Mid Inferoseptal",
     "Mid Inferior", "Mid Inferolateral", "Mid Anterolateral",
     "Apical Anterior", "Apical Septal", "Apical Inferior", "Apical Lateral",
     "Apex" >>

Names18 ==
  << "Basal Anterior", "Basal Anteroseptal", "Basal Inferoseptal",
     "Basal Inferior", "Basal Inferolateral", "Basal Anterolateral",
     "Mid Anterior", "Mid Anteroseptal", "Mid Inferoseptal",
     "Mid Inferior", "Mid Inferolateral", "Mid Anterolateral",
     "Apical Anterior", "Apical Anteroseptal", "Apical Inferoseptal",
     "Apical Inferior", "Apical Inferolateral", "Apical Anterolateral" >>

\* AHA_FEATURES has an entry for "17" and for "18" only
FeatureKeys == {17, 18}

AHA_FEATURES_names(n) == IF n = 17 THEN Names17 ELSE Names18

\* the 18-segment levels whatever the number of segments
AHA_FEATURES_levels_Always18(n) == Levels18

AHA_FEATURES_levels(n) == IF n = 17 THEN Levels17 ELSE Levels18

norm_values(plot_type) ==
  IF plot_type = "Strain" THEN <<-30, 30>> ELSE <<1000, 3000>>

(***************************************************************************)
(* Exact numbers: [i, n, d] is i + n/d, 0 <= n < d                         *)
(***************************************************************************)
Num(i, n, d) == [i |-> i + (n \div d), n |-> n % d, d |-> d]

FromInt(v) == [i |-> v, n |-> 0, d |-> 1]

RECURSIVE GCD(_, _)
GCD(a, b) == IF b = 0 THEN a ELSE GCD(b, a % b)

\* x + y
NumAdd(x, y) ==
  IF x.d = y.d THEN Num(x.i + y.i, x.n + y.n, x.d)
  ELSE LET g == GCD(x.d, y.d)
           l == (x.d \div g) * y.d
       IN  Num(x.i + y.i, x.n * (l \div x.d) + y.n * (l \div y.d), l)

\* -x
NumNeg(x) == Num(-x.i, -x.n, x.d)

NumSub(x, y) == NumAdd(x, NumNeg(y))

\* x * k, k an integer
NumScale(x, k) == Num(x.i * k, x.n * k, x.d)

\* x / k, k a positive integer
NumDivInt(x, k) == Num(x.i \div k, (x.i % k) * x.d + x.n, x.d * k)

\* x * p / q, p and q integers, 0 <= p, 0 < q
NumMulRat(x, p, q) ==
  LET ip == x.i * p
  IN  Num(ip \div q, (ip % q) * x.d + x.n * p, x.d * q)

NumIsInt(x, v) == x.i = v /\ x.n = 0

NumGT(x, v) == x.i > v \/ (x.i = v /\ x.n > 0)

NumLT(x, v) == x.i < v

\* equality of two numbers whatever their denominators
NumEq(x, y) == x.i = y.i /\ x.n * y.d = y.n * x.d

(***************************************************************************)
(* numpy helpers.  Arrays are functions on 0..len-1.                       *)
(***************************************************************************)
ArrayLen(a) == Cardinality(DOMAIN a)

\* an array held as stored values (the same function, no longer an expression)
Array(f) == f @@ <<>>

\* the samples stop one step short of the end value (endpoint left out)
LinspaceAt_NoEndpoint(start, stop, num, j) ==
  Num(start, j * (stop - start), num)

\* np.linspace(start, stop, num)[j]: start + j * (stop - start) / (num - 1)
LinspaceAt(start, stop, num, j) ==
  IF num = 1 THEN FromInt(start) ELSE Num(start, j * (stop - start), num - 1)

linspace(start, stop, num) ==
  [j \in 0..(num - 1) |-> LinspaceAt(start, stop, num, j)]

\* the elements moved the other way round
roll_Backwards(a, shift) ==
  LET len == ArrayLen(a)
  IN  Array([j \in 0..(len - 1) |-> a[(j + shift) % len]])

\* np.roll(a, shift): element j comes from element (j - shift) mod len
roll(a, shift) ==
  LET len == ArrayLen(a)
  IN  Array([j \in 0..(len - 1) |-> a[(j - shift) % len]])

\* np.flip(rows, 0)
flip(rows) ==
  LET len == ArrayLen(rows)
  IN  Array([r \in 0..(len - 1) |-> rows[len - 1 - r]])

\* np.repeat(v, num)
repeat(v, num) == [j \in 0..(num - 1) |-> v]

RECURSIVE SeqSum(_)
SeqSum(s) == IF s = <<>> THEN 0 ELSE Head(s) + SeqSum(Tail(s))

SetMax(S) == CHOOSE x \in S : \A y \in S : y <= x

SetMin(S) == CHOOSE x \in S : \A y \in S : x <= y

(***************************************************************************)
(* AHAInterpolation                                                        *)
(***************************************************************************)
\* bounds of the destination slice of wedge i (0-based) of a ring of k values
SliceLo(res, k, i) == (res \div k) * i

\* the resolutions below 26 at which the double-precision sum
\* res / 6 * 5 + res / 6 falls just short of the integer res
FloatShortResolutions == {1, 2, 4, 8, 13, 16}

\* the slice ends one index early
SliceHi_OneEarly(res, k, i) == ((res * i + res) \div k) - 1

\* int(res / k * i + res / k)
SliceHi(res, k, i) ==
  ((res * i + res) \div k)
    - (IF k = 6 /\ i = 5 /\ res \in FloatShortResolutions THEN 1 ELSE 0)

\* the last wedge does not wrap round to the first value
InterpolateDirections_NoWrap(regional_values, res) ==
  LET k == Len(regional_values)
      per == res \div k
  IN  [j \in 0..(res - 1) |->
         LET i == IF j \div per < k THEN j \div per ELSE k - 1
         IN  LinspaceAt(regional_values[i + 1],
                        regional_values[(IF i + 1 < k THEN i + 1 ELSE i) + 1],
                        per, j - SliceLo(res, k, i))]

\* _interpolate_directions: regional_values is a sequence of k raw values
InterpolateDirections(regional_values, res) ==
  LET k == Len(regional_values)
      per == res \div k
  IN  [j \in 0..(res - 1) |->
         LET W == {i \in 0..(k - 1) : SliceLo(res, k, i) <= j /\ j < SliceHi(res, k, i)}
         IN  IF W = {} THEN FromInt(0)
             ELSE LET i == SetMax(W)
                  IN  LinspaceAt(regional_values[i + 1],
                                 regional_values[((i + 1) % k) + 1],
                                 per, j - SliceLo(res, k, i))]

\* the blend weighted four to one: (basal * 4 + mid) / 5
BasalMid_FourToOne(basal, mid) ==
  [j \in DOMAIN basal |-> NumDivInt(NumAdd(NumScale(basal[j], 4), mid[j]), 5)]

\* _basal_mid: (basal * 3 + mid) / 4
BasalMid(basal, mid) ==
  [j \in DOMAIN basal |-> NumDivInt(NumAdd(NumScale(basal[j], 3), mid[j]), 4)]

\* the centre taken one segment early: values[15] for 17 segments, the sum
\* of values[12:17] for 18
InterpolateValuesAlongCircle_EarlyApex(values, res) ==
  LET basal == InterpolateDirections(SubSeq(values, 1, 6), res)
      mid   == InterpolateDirections(SubSeq(values, 7, 12), res)
  IN  IF Len(values) = 17
      THEN << basal, mid,
              InterpolateDirections(SubSeq(values, 13, 16), res),
              repeat(FromInt(values[16]), res) >>
      ELSE << basal, mid,
              InterpolateDirections(SubSeq(values, 13, Len(values)), res),
              repeat(NumDivInt(FromInt(SeqSum(SubSeq(values, 13, 17))), 6), res) >>

\* _interpolate_values_along_circle: <<basal, mid, apex_mid, apex>>
InterpolateValuesAlongCircle(values, res) ==
  LET basal == InterpolateDirections(SubSeq(values, 1, 6), res)
      mid   == InterpolateDirections(SubSeq(values, 7, 12), res)
  IN  IF Len(values) = 17
      THEN << basal, mid,
              InterpolateDirections(SubSeq(values, 13, 16), res),
              repeat(FromInt(values[17]), res) >>
      ELSE << basal, mid,
              InterpolateDirections(SubSeq(values, 13, Len(values)), res),
              repeat(NumDivInt(FromInt(SeqSum(SubSeq(values, 13, Len(values)))), 6), res) >>

\* np.array([basal, basal_mid, mid, apex_mid, apex]): the rows before the roll
Stacked(values, res) ==
  LET c == InterpolateValuesAlongCircle(values, res)
  IN  Array([r \in 0..4 |->
               Array(CASE r = 0 -> c[1]
                       [] r = 1 -> BasalMid(c[1], c[2])
                       [] r = 2 -> c[2]
                       [] r = 3 -> c[3]
                       [] r = 4 -> c[4])])

\* the rows stacked and flipped, the quarter turn left out
AlongX_NoRoll(values, res) ==
  LET c == InterpolateValuesAlongCircle(values, res)
      stacked == [r \in 0..4 |->
                    CASE r = 0 -> c[1]
                      [] r = 1 -> BasalMid(c[1], c[2])
                      [] r = 2 -> c[2]
                      [] r = 3 -> c[3]
                      [] r = 4 -> c[4]]
  IN  flip(Array([r \in 0..4 |-> Array(stacked[r])]))

\* the rows handed to interp1d: stacked, rolled by a quarter turn, flipped
AlongX(values, res) ==
  LET c == InterpolateValuesAlongCircle(values, res)
      stacked == [r \in 0..4 |->
                    CASE r = 0 -> c[1]
                      [] r = 1 -> BasalMid(c[1], c[2])
                      [] r = 2 -> c[2]
                      [] r = 3 -> c[3]
                      [] r = 4 -> c[4]]
      rolled == Array([r \in 0..4 |-> roll(stacked[r], res \div 4)])
  IN  flip(rolled)

\* scipy interp1d(kind="linear"): index of the upper anchor of the interval
\* used for the sample t/(rres - 1): searchsorted(levels, x_new) clipped to
\* 1..len(levels) - 1
UpperAnchor(levels, t, rres) ==
  LET below == Cardinality({k \in 1..Len(levels) :
                              levels[k] * (rres - 1) < LevelScale * t})
  IN  IF below < 1 THEN 1
      ELSE IF below > Len(levels) - 1 THEN Len(levels) - 1 ELSE below

\* the offset added to the upper anchor's value
InterpLinear_FromUpper(y_lo, y_hi, l_lo, l_hi, t, rres) ==
  NumAdd(NumMulRat(NumSub(y_hi, y_lo),
                   LevelScale * t - l_lo * (rres - 1),
                   (rres - 1) * (l_hi - l_lo)),
         y_hi)

\* slope * (x_new - x_lo) + y_lo for one cell
InterpLinear(y_lo, y_hi, l_lo, l_hi, t, rres) ==
  NumAdd(NumMulRat(NumSub(y_hi, y_lo),
                   LevelScale * t - l_lo * (rres - 1),
                   (rres - 1) * (l_hi - l_lo)),
         y_lo)

\* the interpolator evaluated at one sample too few
InterpolateAlongRadius_OneShort(levels, along_x, rres) ==
  [t \in 0..(rres - 2) |->
     LET hi == UpperAnchor(levels, t, rres)
     IN  Array([j \in DOMAIN along_x[hi] |->
                  InterpLinear(along_x[hi - 1][j], along_x[hi][j],
                               levels[hi], levels[hi + 1], t, rres)])]

\* the interpolator evaluated at np.linspace(0, 1, rres)
InterpolateAlongRadius(levels, along_x, rres) ==
  [t \in 0..(rres - 1) |->
     LET hi == UpperAnchor(levels, t, rres)
         y_lo == along_x[hi - 1]
         y_hi == along_x[hi]
         l_lo == levels[hi]
         l_hi == levels[hi + 1]
     IN  Array([j \in DOMAIN y_lo |-> InterpLinear(y_lo[j], y_hi[j], l_lo, l_hi, t, rres)])]

\* only the values above the range are brought back
Clamp_UpperOnly(x, lo, hi) ==
  IF NumGT(x, hi) THEN FromInt(hi) ELSE x

\* _normalize_excessive_values
Clamp(x, lo, hi) ==
  IF NumGT(x, hi) THEN FromInt(hi) ELSE IF NumLT(x, lo) THEN FromInt(lo) ELSE x

NormalizeExcessiveValues(data, plot_type) ==
  LET nv == norm_values(plot_type)
      max_interpolated == SetMax({nv[1], nv[2]})
      min_interpolated == SetMin({nv[1], nv[2]})
  IN  [t \in DOMAIN data |->
         LET row == data[t]
         IN  [j \in DOMAIN row |-> Clamp(row[j], min_interpolated, max_interpolated)]]

\* interpolate_aha_values
InterpolateAhaValues(values, plot_type) ==
  NormalizeExcessiveValues(
    InterpolateAlongRadius(AHA_FEATURES_levels(Len(values)),
                           AlongX(values, AngularResolution),
                           RadialResolution),
    plot_type)

(***************************************************************************)
(* AHASegmentalValues                                                      *)
(***************************************************************************)
\* a mapping (dict) is a sequence of <<key, value>> pairs with distinct keys,
\* in insertion order
Keys(m) == [p \in 1..Len(m) |-> m[p][1]]

KeySet(m) == {m[p][1] : p \in 1..Len(m)}

Lookup(m, key) == m[CHOOSE p \in 1..Len(m) : m[p][1] = key][2]

SeqRange(s) == {s[p] : p \in 1..Len(s)}

\* a validator whose name loop never raises
SegmentValidator_NoNameCheck(m) ==
  IF Len(m) \notin FeatureKeys THEN "KeyError" ELSE "none"

\* segment_validator: the error it raises, or "none".
\*   AHA_FEATURES[str(len(segments))] raises KeyError for a missing key; the
\*   handler around it catches SegmentSizeError only.
SegmentValidator(m) ==
  IF Len(m) \notin FeatureKeys THEN "KeyError"
  ELSE LET correct_segment_names == AHA_FEATURES_names(Len(m))
       IN  IF Len(correct_segment_names) # Len(m) THEN "SegmentSizeError"
           ELSE IF \E p \in 1..Len(m) : Keys(m)[p] # correct_segment_names[p]
                THEN "SegmentsNameError"
                ELSE "none"

\* the values in the order of the input, the last name left out
ParseSegmentalValues_ShortLoop(m) ==
  LET names == AHA_FEATURES_names(Len(m))
  IN  [p \in 1..(Len(names) - 1) |-> Lookup(m, names[p])]

\* _parse_segmental_values
ParseSegmentalValues(m) ==
  LET names == AHA_FEATURES_names(Len(m))
  IN  [p \in 1..Len(names) |-> Lookup(m, names[p])]

(***************************************************************************)
(* Inputs                                                                  *)
(***************************************************************************)
\* how many entries an input may have less than 17 / more than 18
MaxMissing == 1

MaxExtra == 1

Scenario17 == <<-13, -14, -16, -19, -19, -18, -19, -23, -17, -21, -20, -20, -23, -24, -28, -25, -26>>

ExpMw17 == <<1926, 1525, 1673, 2048, 2325, 2200, 2197, 2014, 1982, 2199, 2431, 2409, 2554, 2961, 2328, 2329, 2288>>

Excess17 == <<-13, 33, -16, -40, -19, 30, -19, -23, -35, -21, 31, -20, -23, -24, -28, 36, 35>>

AllTen18 == [p \in 1..18 |-> 10]

Apical18 == <<-13, -14, -16, -20, -19, -18, -19, -23, -19, -21, -20, -20, 8, 9, 10, 11, 12, 13>>

ExpMw18 == <<1926, 1525, 1673, 2048, 2325, 2200, 2197, 2014, 1982, 2199, 2431, 2409, 2554, 2961, 2328, 2329, 2288, 1800>>

Excess18 == <<900, 1525, 3100, 2048, 2325, 2200, 2197, 800, 1982, 2199, 3200, 2409, 3554, 3961, 3328, 3329, 3288, 3800>>

\* the value vectors given to valid mappings, each with its plot type
Cases ==
  { <<Scenario17, "Strain">>, <<ExpMw17, "MyocardialWork">>, <<Excess17, "Strain">>,
    <<AllTen18, "Strain">>, <<Apical18, "Strain">>, <<ExpMw18, "MyocardialWork">>,
    <<Excess18, "MyocardialWork">> }

\* key sequences: the canonical lists, lists with two names exchanged, lists
\* with one unknown name, and lists that are too short or too long
Swap(s, a, b) ==
  [p \in 1..Len(s) |-> IF p = a THEN s[b] ELSE IF p = b THEN s[a] ELSE s[p]]

Extra(e) == <<"Extra A", "Extra B", "Extra C">>[e]

RECURSIVE Extend(_, _)
Extend(s, e) == IF e = 0 THEN s ELSE Append(Extend(s, e - 1), Extra(e))

CanonicalKeys == {Names17, Names18}

SwappedKeys ==
  {Swap(s, a, b) : <<s, a, b>> \in {t \in CanonicalKeys \X (1..18) \X (1..18) :
                                     t[2] < t[3] /\ t[3] <= Len(t[1])}}

RenamedKeys ==
  {[s EXCEPT ![a] = "Unknown"] : <<s, a>> \in {t \in CanonicalKeys \X (1..18) :
                                                t[2] <= Len(t[1])}}

\* 17 names of the 18-segment list: the right size, the wrong apical names
MixedKeys == {SubSeq(Names18, 1, 17), Append(SubSeq(Names17, 1, 16), "Apical Anterolateral"),
              Append(Names17, "Apical Anterolateral")}

ShortKeys == {SubSeq(Names17, 1, 17 - e) : e \in 1..MaxMissing}

LongKeys == {Extend(Names18, e) : e \in 1..MaxExtra}

\* values that tell the entries of a mapping apart
Marked(keys) == [p \in 1..Len(keys) |-> <<keys[p], 2 * p - 25>>]

Zip(keys, values) == [p \in 1..Len(keys) |-> <<keys[p], values[p]>>]

Inputs ==
  {<<Zip(AHA_FEATURES_names(Len(c[1])), c[1]), c[2]>> : c \in Cases}
  \cup {<<Marked(k), "Strain">> :
          k \in SwappedKeys \cup RenamedKeys \cup MixedKeys \cup ShortKeys \cup LongKeys}

(***************************************************************************)
(* The program: AHASegmentalValues(segments=...) followed by               *)
(* AHAInterpolation(segments, plot_type).interpolate_aha_values()          *)
(***************************************************************************)
VARIABLES segments, plot_type, pc, error, segmental_values, grid,
          regional_values, interpolated_array, stacked, along_x,
          calls, first_grid, between, extended_angular_coordinates,
          full_map_interp, n_segments, plot_levels,
          interpolated_data, data_before,
          n_arg, held_n_segments, ax, call,
          data_index, case_id, table_model, case_label, layout,
          aha_plot_canvas, made, trail,
          resolution, write_count

\* calls of interpolate_aha_values on one instance, and the grid of the first
repeatVars == <<calls, first_grid>>

\* what annotation, bounds drawing and the colouring handler leave behind
plotVars == <<between, extended_angular_coordinates>>

\* the older classes: SmoothAHAPlot (ahasmoothplot.py) and the
\* AHAInterpolation of smooth_aha_plot.py
legacyVars == <<full_map_interp, n_segments, plot_levels>>

\* the array handed to _normalize_excessive_values, which changes it in
\* place, and a copy of it taken before the call
normVars == <<interpolated_data, data_before>>

\* AHAPlotBounds: the count handed to __init__, the field _n_segments, the
\* lines plotted on the axes, and the arguments of the latest _draw_bounds
\* call with the lines that were on the axes when it was made
boundsVars == <<n_arg, held_n_segments, ax, call>>

\* Widget (aha_widget/central_widget.py): the index of the data frame, the
\* current case, the table model, the text of the case label, the widgets of
\* the plot layout, the canvas attribute, the number of canvases made so
\* far, and the button presses handled so far
widgetVars == <<data_index, case_id, table_model, case_label, layout,
                aha_plot_canvas, made, trail>>

\* _interpolate_directions under any resolution: PLOT_COMPONENTS
\* ["resolution"][0] and, for every index of interpolated_array, the number
\* of times it has been assigned
sliceVars == <<resolution, write_count>>

\* the state of the helpers and of the classes around the interpolation
laterVars == <<normVars, boundsVars, widgetVars, sliceVars>>

vars == <<segments, plot_type, pc, error, segmental_values, grid,
          regional_values, interpolated_array, stacked, along_x,
          repeatVars, plotVars, legacyVars, laterVars>>

InitRepeatVars == calls = 0 /\ first_grid = <<>>

InitPlotVars == between = {} /\ extended_angular_coordinates = <<>>

InitLegacyVars == full_map_interp = <<>> /\ n_segments = 0 /\ plot_levels = <<>>

InitNormVars == interpolated_data = <<>> /\ data_before = <<>>

NoCall == [inner |-> 0, outer |-> 0, n_borders |-> 0, lines_before |-> <<>>, count |-> 0]

InitBoundsVars == n_arg = 0 /\ held_n_segments = 0 /\ ax = <<>> /\ call = NoCall

NoCanvas == [id |-> 0, figure |-> ""]

InitWidgetVars ==
  /\ data_index = <<>> /\ case_id = "" /\ table_model = [case |-> ""]
  /\ case_label = "" /\ layout = <<>> /\ aha_plot_canvas = NoCanvas
  /\ made = 0 /\ trail = <<>>

InitSliceVars == resolution = AngularResolution /\ write_count = <<>>

InitLaterVars == InitNormVars /\ InitBoundsVars /\ InitWidgetVars /\ InitSliceVars

Init ==
  /\ \E inp \in Inputs : segments = inp[1] /\ plot_type = inp[2]
  /\ pc = "start"
  /\ error = "none"
  /\ segmental_values = <<>>
  /\ grid = <<>>
  /\ regional_values = <<>>
  /\ interpolated_array = <<>>
  /\ stacked = <<>>
  /\ along_x = <<>>
  /\ InitRepeatVars /\ InitPlotVars /\ InitLegacyVars /\ InitLaterVars

\* AHASegmentalValues.__init__: validation, then _parse_segmental_values
Construct ==
  /\ pc = "start"
  /\ LET e == SegmentValidator(segments)
     IN  IF e # "none"
         THEN /\ pc' = "failed"
              /\ error' = e
              /\ segmental_values' = segmental_values
         ELSE IF ~(SeqRange(AHA_FEATURES_names(Len(segments))) \subseteq KeySet(segments))
         THEN \* self.segments[segment_name] raises KeyError
              /\ pc' = "failed"
              /\ error' = "KeyError"
              /\ segmental_values' = segmental_values
         ELSE /\ pc' = "constructed"
              /\ error' = "none"
              /\ segmental_values' = ParseSegmentalValues(segments)
  /\ UNCHANGED <<segments, plot_type, grid, regional_values, interpolated_array,
                 stacked, along_x, repeatVars, plotVars, legacyVars, laterVars>>

\* AHAInterpolation.interpolate_aha_values on the constructed segments
Interpolate ==
  /\ pc = "constructed"
  /\ stacked' = Stacked(segmental_values, AngularResolution)
  /\ along_x' = AlongX(segmental_values, AngularResolution)
  /\ grid' = InterpolateAhaValues(segmental_values, plot_type)
  /\ pc' = "interpolated"
  /\ UNCHANGED <<segments, plot_type, error, segmental_values,
                 regional_values, interpolated_array,
                 repeatVars, plotVars, legacyVars, laterVars>>

\* the angles one step short of the full turn: j / resolution
ANGULAR_COORDINATES_HalfOpen ==
  Array([j \in 0..(AngularResolution - 1) |-> Num(0, j, AngularResolution)])

\* ANGULAR_COORDINATES = np.linspace(0, 2 * np.pi, resolution[0]), held as
\* fractions of the full turn 2 * pi
ANGULAR_COORDINATES ==
  Array([j \in 0..(AngularResolution - 1) |-> LinspaceAt(0, 1, AngularResolution, j)])

\* Biomarker.__init__: np.repeat(ANGULAR_COORDINATES[:, np.newaxis],
\* extended_radial_coordinates.shape[1], axis=1), an array of resolution[0]
\* rows of resolution[1] equal entries
ExtendedAngularCoordinates ==
  LET angles == ANGULAR_COORDINATES
  IN  Array([j \in DOMAIN angles |->
               Array([t \in 0..(RadialResolution - 1) |-> angles[j]])])

\* AHA.bullseye_smooth: annotation, bounds, AHAPlotting (which builds the
\* colouring handler), then create_plot, whose
\* AHAInterpolation(segments=segments) lacks the plot_type argument that
\* AHAInterpolation.__init__ requires: TypeError
BullseyeSmooth ==
  /\ pc = "constructed"
  /\ between' = between \cup {"annotate", "bounds"}
  /\ extended_angular_coordinates' = ExtendedAngularCoordinates
  /\ pc' = "plot_failed"
  /\ error' = "TypeError"
  /\ UNCHANGED <<segments, plot_type, segmental_values, grid, regional_values,
                 interpolated_array, stacked, along_x, repeatVars, legacyVars, laterVars>>

Next == Construct \/ Interpolate \/ BullseyeSmooth

Spec == Init /\ [][Next]_vars

\* construction alone
NextConstruct == Construct

SpecConstruct == Init /\ [][NextConstruct]_vars

(***************************************************************************)
(* _interpolate_directions on its own: one ring of 4 or 6 raw values       *)
(***************************************************************************)
\* ring values are drawn from {7 * x - 10 : x \in 0..MaxRingLevel}
MaxRingLevel == 1

RingValueSet == {7 * x - 10 : x \in 0..MaxRingLevel}

RingSizes == {4, 6}

Rings == UNION {[1..k -> RingValueSet] : k \in RingSizes}

InitRing ==
  /\ segments = <<>>
  /\ plot_type = "Strain"
  /\ pc = "ring"
  /\ error = "none"
  /\ segmental_values = <<>>
  /\ grid = <<>>
  /\ regional_values \in Rings
  /\ interpolated_array = <<>>
  /\ stacked = <<>>
  /\ along_x = <<>>
  /\ InitRepeatVars /\ InitPlotVars /\ InitLegacyVars /\ InitLaterVars

InterpolateRing ==
  /\ pc = "ring"
  /\ interpolated_array' = InterpolateDirections(regional_values, AngularResolution)
  /\ pc' = "ring_done"
  /\ UNCHANGED <<segments, plot_type, error, segmental_values, grid, regional_values,
                 stacked, along_x, repeatVars, plotVars, legacyVars, laterVars>>

NextRing == InterpolateRing

SpecRing == InitRing /\ [][NextRing]_vars

(***************************************************************************)
(* AHAInterpolation on a segments object of any length: the class holds    *)
(* what it is given and interpolate_aha_values checks no length            *)
(***************************************************************************)
\* value patterns of the directly supplied sequences
MaxDirectBase == 5

MaxDirectStep == 5

DirectLengths == (17 - MaxMissing)..(18 + MaxExtra)

DirectValues(n, a, b) == [p \in 1..n |-> -10 - a - ((p * b) % 7)]

DirectInputs ==
  {DirectValues(n, a, b) : n \in DirectLengths \ FeatureKeys,
                           a \in 0..MaxDirectBase, b \in 1..MaxDirectStep}
  \cup {Scenario17, Apical18}

\* the destination slice of every wedge has the length of the samples
\* written into it (numpy refuses the assignment otherwise, except for a
\* single sample, which is broadcast)
SlicesFit(k, res) ==
  \/ res \div k = 1
  \/ \A i \in 0..(k - 1) : SliceHi(res, k, i) - SliceLo(res, k, i) = res \div k

InitDirect ==
  /\ segments = <<>>
  /\ plot_type = "Strain"
  /\ pc = "direct"
  /\ error = "none"
  /\ segmental_values \in DirectInputs
  /\ grid = <<>>
  /\ regional_values = <<>>
  /\ interpolated_array = <<>>
  /\ stacked = <<>>
  /\ along_x = <<>>
  /\ InitRepeatVars /\ InitPlotVars /\ InitLegacyVars /\ InitLaterVars

\* interpolate_aha_values: the rings of values[:6], values[6:12] and
\* values[12:16] or values[12:], the stacking, roll and flip, and only then
\* the look-up of the levels of this number of segments
InterpolateDirect ==
  /\ pc = "direct"
  /\ LET n == Len(segmental_values)
         apical == IF n = 17 THEN SubSeq(segmental_values, 13, 16)
                   ELSE SubSeq(segmental_values, 13, n)
     IN  IF ~SlicesFit(Len(apical), AngularResolution)
         THEN \* the slice assignment of the apical ring raises ValueError
              /\ pc' = "failed"
              /\ error' = "ValueError"
              /\ regional_values' = SubSeq(segmental_values, 7, 12)
              /\ interpolated_array' =
                   InterpolateDirections(SubSeq(segmental_values, 7, 12), AngularResolution)
              /\ UNCHANGED <<stacked, along_x, grid>>
         ELSE IF n \notin FeatureKeys
         THEN \* AHA_FEATURES[str(self.n_segments)] raises KeyError
              /\ pc' = "failed"
              /\ error' = "KeyError"
              /\ stacked' = Stacked(segmental_values, AngularResolution)
              /\ along_x' = AlongX(segmental_values, AngularResolution)
              /\ UNCHANGED <<regional_values, interpolated_array, grid>>
         ELSE /\ pc' = "interpolated"
              /\ error' = "none"
              /\ stacked' = Stacked(segmental_values, AngularResolution)
              /\ along_x' = AlongX(segmental_values, AngularResolution)
              /\ grid' = InterpolateAhaValues(segmental_values, plot_type)
              /\ UNCHANGED <<regional_values, interpolated_array>>
  /\ UNCHANGED <<segments, plot_type, segmental_values,
                 repeatVars, plotVars, legacyVars, laterVars>>

NextDirect == InterpolateDirect

SpecDirect == InitDirect /\ [][NextDirect]_vars

(***************************************************************************)
(* interpolate_aha_values called again on the same AHAInterpolation, with  *)
(* annotation, bounds drawing and another instance's interpolation between *)
(***************************************************************************)
MaxCalls == 2

\* the valid inputs called repeatedly: two that the normalisation changes
\* and one with a fractional centre value
RepeatCases ==
  { <<Excess17, "Strain">>, <<Apical18, "Strain">>, <<Excess18, "MyocardialWork">> }

RepeatInputs ==
  {<<Zip(AHA_FEATURES_names(Len(c[1])), c[1]), c[2]>> : c \in RepeatCases}
  \cup {<<Marked(k), "Strain">> :
          k \in SwappedKeys \cup RenamedKeys \cup MixedKeys \cup ShortKeys \cup LongKeys}

InitRepeat ==
  /\ \E inp \in RepeatInputs : segments = inp[1] /\ plot_type = inp[2]
  /\ pc = "start"
  /\ error = "none"
  /\ segmental_values = <<>>
  /\ grid = <<>>
  /\ regional_values = <<>>
  /\ interpolated_array = <<>>
  /\ stacked = <<>>
  /\ along_x = <<>>
  /\ InitRepeatVars /\ InitPlotVars /\ InitLegacyVars /\ InitLaterVars

\* the normalisation done in place on the list the segments object holds
SharedValuesAfterCall_InPlace(values, ptype) ==
  LET nv == norm_values(ptype)
  IN  [p \in 1..Len(values) |->
         IF values[p] > SetMax({nv[1], nv[2]}) THEN SetMax({nv[1], nv[2]})
         ELSE IF values[p] < SetMin({nv[1], nv[2]}) THEN SetMin({nv[1], nv[2]})
         ELSE values[p]]

\* the list held by the segments object once a call has returned: the
\* segmental_values property hands the interpolation a copy (list(...)), the
\* rings are slices of it, and _normalize_excessive_values works on the
\* array the interpolator returned, so the held list is as it was
SharedValuesAfterCall(values, ptype) == values

InterpolateCall ==
  /\ pc \in {"constructed", "interpolated"}
  /\ calls < MaxCalls
  /\ stacked' = Stacked(segmental_values, AngularResolution)
  /\ along_x' = AlongX(segmental_values, AngularResolution)
  /\ grid' = InterpolateAhaValues(segmental_values, plot_type)
  /\ first_grid' = IF calls = 0 THEN grid' ELSE first_grid
  /\ calls' = calls + 1
  /\ segmental_values' = SharedValuesAfterCall(segmental_values, plot_type)
  /\ pc' = "interpolated"
  /\ UNCHANGED <<segments, plot_type, error, regional_values, interpolated_array,
                 plotVars, legacyVars, laterVars>>

\* AHAAnnotation(segments, ax).annotate_aha_segments(): reads the values,
\* writes texts on the axes and PLOT_COMPONENTS["values_style"]["path_effects"]
Annotate ==
  /\ pc = "interpolated"
  /\ "annotate" \notin between
  /\ between' = between \cup {"annotate"}
  /\ UNCHANGED <<segments, plot_type, pc, error, segmental_values, grid,
                 regional_values, interpolated_array, stacked, along_x,
                 repeatVars, extended_angular_coordinates, legacyVars, laterVars>>

\* AHAPlotBounds(n_segments, ax).draw_aha_bounds(): draws lines on the axes
DrawBounds ==
  /\ pc = "interpolated"
  /\ "bounds" \notin between
  /\ between' = between \cup {"bounds"}
  /\ UNCHANGED <<segments, plot_type, pc, error, segmental_values, grid,
                 regional_values, interpolated_array, stacked, along_x,
                 repeatVars, extended_angular_coordinates, legacyVars, laterVars>>

\* interpolate_aha_values of another AHAInterpolation, on other values: its
\* rows and its grid are that call's own arrays
OtherInterpolation ==
  /\ pc = "interpolated"
  /\ "other" \notin between
  /\ between' = between \cup {"other"}
  /\ UNCHANGED <<segments, plot_type, pc, error, segmental_values, grid,
                 regional_values, interpolated_array, stacked, along_x,
                 repeatVars, extended_angular_coordinates, legacyVars, laterVars>>

NextRepeat ==
  Construct \/ InterpolateCall \/ Annotate \/ DrawBounds \/ OtherInterpolation

SpecRepeat == InitRepeat /\ [][NextRepeat]_vars

(***************************************************************************)
(* The historical SmoothAHAPlot of ahasmoothplot.py                        *)
(***************************************************************************)
AHA_17_SEGMENT_NAMES ==
  << "Basal Anterior", "Basal Anteroseptal", "Basal Inferoseptal",
     "Basal Inferior", "Basal Inferolateral", "Basal Anterolateral",
     "Mid Anterior", "Mid Anteroseptal", "Mid Inferoseptal",
     "Mid Inferior", "Mid Inferolateral", "Mid Anterolateral",
     "Apical Anterior", "Apical Septal", "Apical Inferior", "Apical Lateral",
     "Apex" >>

AHA_18_SEGMENT_NAMES ==
  << "Basal Anterior", "Basal Anteroseptal", "Basal Inferoseptal",
     "Basal Inferior", "Basal Inferolateral", "Basal Anterolateral",
     "Mid Anterior", "Mid Anteroseptal", "Mid Inferoseptal",
     "Mid Inferior", "Mid Inferolateral", "Mid Anterolateral",
     "Apical Anterior", "Apical Anteroseptal", "Apical Inferoseptal",
     "Apical Inferior", "Apical Inferolateral", "Apical Anterolateral" >>

\* self.resolution
HistResolution == <<768, 100>>

\* _get_segmental_values for a dict: the values in the order of the name list
GetSegmentalValues(m, n) ==
  LET seg_list == IF n = 17 THEN AHA_17_SEGMENT_NAMES ELSE AHA_18_SEGMENT_NAMES
  IN  [p \in 1..Len(seg_list) |-> Lookup(m, seg_list[p])]

\* one of the loops "interpolate around the radial positions": k wedges of
\* int(res_x / k) samples, wedge i from ring[i] to ring[(i + 1) % k]
AroundRadialPositions(ring, k, res_x) ==
  LET per == res_x \div k
  IN  [j \in 0..(res_x - 1) |->
         LET i == j \div per
         IN  Num(ring[i + 1],
                 (j - per * i) * (ring[((i + 1) % k) + 1] - ring[i + 1]),
                 per - 1)]

\* _basal_low = (basal_interp * 3 + mid_interp) / 4
BasalLow(basal_interp, mid_interp) ==
  [j \in DOMAIN basal_interp |->
     NumDivInt(NumAdd(NumScale(basal_interp[j], 3), mid_interp[j]), 4)]

\* full_map stacked, rolled by int(res_x / 4) and flipped
FullMap(basal_interp, mid_interp, apical_interp, apex_interp, res_x) ==
  LET full_map == [r \in 0..4 |->
                     CASE r = 0 -> basal_interp
                       [] r = 1 -> BasalLow(basal_interp, mid_interp)
                       [] r = 2 -> mid_interp
                       [] r = 3 -> apical_interp
                       [] r = 4 -> apex_interp]
  IN  flip(Array([r \in 0..4 |-> roll(full_map[r], res_x \div 4)]))

\* the 17-segment map interpolated between the 18-segment levels
Interpolate17AhaValues_Levels18(aha_values) ==
  LET res_x == HistResolution[1]
      res_y == HistResolution[2]
      full_map == FullMap(AroundRadialPositions(SubSeq(aha_values, 1, 6), 6, res_x),
                          AroundRadialPositions(SubSeq(aha_values, 7, 12), 6, res_x),
                          AroundRadialPositions(SubSeq(aha_values, 13, 16), 4, res_x),
                          repeat(FromInt(aha_values[17]), res_x), res_x)
      y_0 == <<0, 28, 50, 80, 100>>
  IN  InterpolateAlongRadius(y_0, full_map, res_y)

\* _interpolate_17_aha_values
Interpolate17AhaValues(aha_values) ==
  LET res_x == HistResolution[1]
      res_y == HistResolution[2]
      full_map == FullMap(AroundRadialPositions(SubSeq(aha_values, 1, 6), 6, res_x),
                          AroundRadialPositions(SubSeq(aha_values, 7, 12), 6, res_x),
                          AroundRadialPositions(SubSeq(aha_values, 13, 16), 4, res_x),
                          repeat(FromInt(aha_values[17]), res_x), res_x)
      y_0 == <<0, 33, 55, 85, 100>>
  IN  InterpolateAlongRadius(y_0, full_map, res_y)

\* _interpolate_18_aha_values
Interpolate18AhaValues(aha_values) ==
  LET res_x == HistResolution[1]
      res_y == HistResolution[2]
      apical == SubSeq(aha_values, 13, 18)
      apex == NumDivInt(FromInt(SeqSum(apical)), 6)
      full_map == FullMap(AroundRadialPositions(SubSeq(aha_values, 1, 6), 6, res_x),
                          AroundRadialPositions(SubSeq(aha_values, 7, 12), 6, res_x),
                          AroundRadialPositions(apical, 6, res_x),
                          repeat(apex, res_x), res_x)
      y_0 == <<0, 28, 50, 80, 100>>
  IN  InterpolateAlongRadius(y_0, full_map, res_y)

\* SmoothAHAPlot(segments, n_segments=len(segments)) on the mapping already
\* interpolated by AHAInterpolation, then _interpolate_17_aha_values() or
\* _interpolate_18_aha_values()
InterpolateHistorical ==
  /\ pc = "interpolated"
  /\ full_map_interp = <<>>
  /\ LET n == Len(segments)
         seg_values == GetSegmentalValues(segments, n)
     IN  full_map_interp' = IF n = 17 THEN Interpolate17AhaValues(seg_values)
                            ELSE Interpolate18AhaValues(seg_values)
  /\ UNCHANGED <<segments, plot_type, pc, error, segmental_values, grid,
                 regional_values, interpolated_array, stacked, along_x,
                 repeatVars, plotVars, n_segments, plot_levels, laterVars>>

NextHistorical == Construct \/ Interpolate \/ InterpolateHistorical

SpecHistorical == Init /\ [][NextHistorical]_vars

(***************************************************************************)
(* The AHAInterpolation class of smooth_aha_plot.py, built on a list       *)
(***************************************************************************)
OldInputs ==
  {DirectValues(n, a, b) : n \in {m \in DirectLengths : m < 17},
                           a \in 0..MaxDirectBase, b \in 1..MaxDirectStep}
  \cup {Scenario17, ExpMw17, Excess17, Apical18, ExpMw18}

\* _assign_interpolation_parameters: "if self._n_segments == 17: self.ip =
\* AHA17Parameters()" is followed, with no else, by "self.ip =
\* AHA18Parameters()", so the 18-segment levels are the ones kept
AssignInterpolationParameters(n) ==
  LET first == IF n = 17 THEN Levels17 ELSE <<>>
      last  == Levels18
  IN  last

\* confirm_segment_number: the recorded count is 17 or 18
ConfirmSegmentNumber(n) == n = 17 \/ n = 18

InitOld ==
  /\ segments = <<>>
  /\ plot_type = "Strain"
  /\ pc = "old_start"
  /\ error = "none"
  /\ segmental_values \in OldInputs
  /\ grid = <<>>
  /\ regional_values = <<>>
  /\ interpolated_array = <<>>
  /\ stacked = <<>>
  /\ along_x = <<>>
  /\ InitRepeatVars /\ InitPlotVars /\ InitLegacyVars /\ InitLaterVars

\* AHAInterpolation.__init__: _n_segments = 17, then the assignment
\* self.segmental_values = segmental_values.  The class attribute
\* segmental_values is the plain function confirm_segment_number returned
\* (it wraps the property object), not a property, so the assignment makes
\* an instance attribute and the setter body that records
\* len(segmental_values) never runs: _n_segments stays 17.
ConstructOld ==
  /\ pc = "old_start"
  /\ n_segments' = 17
  /\ IF ConfirmSegmentNumber(n_segments')
     THEN /\ plot_levels' = AssignInterpolationParameters(n_segments')
          /\ pc' = "old_constructed"
          /\ error' = "none"
     ELSE /\ plot_levels' = plot_levels
          /\ pc' = "failed"
          /\ error' = "SegmentSizeError"
  /\ UNCHANGED <<segments, plot_type, segmental_values, grid, regional_values,
                 interpolated_array, stacked, along_x, repeatVars, plotVars,
                 full_map_interp, laterVars>>

\* interpolate_aha_values of that class: with _n_segments = 17 always the
\* 17-segment rings values[:6], values[6:12], values[12:16] and values[16],
\* interpolated between self.ip.plot_levels, nothing clamped
InterpolateOld ==
  /\ pc = "old_constructed"
  /\ IF ~ConfirmSegmentNumber(n_segments)
     THEN /\ pc' = "failed"
          /\ error' = "SegmentSizeError"
          /\ UNCHANGED <<grid, stacked, along_x>>
     ELSE IF Len(segmental_values) < 17
     THEN \* self.segmental_values[16] raises IndexError
          /\ pc' = "failed"
          /\ error' = "IndexError"
          /\ UNCHANGED <<grid, stacked, along_x>>
     ELSE LET values == SubSeq(segmental_values, 1, 17)
          IN  /\ stacked' = Stacked(values, AngularResolution)
              /\ along_x' = AlongX(values, AngularResolution)
              /\ grid' = InterpolateAlongRadius(plot_levels, along_x', RadialResolution)
              /\ pc' = "old_interpolated"
              /\ error' = "none"
  /\ UNCHANGED <<segments, plot_type, segmental_values, regional_values,
                 interpolated_array, repeatVars, plotVars, legacyVars, laterVars>>

NextOld == ConstructOld \/ InterpolateOld

SpecOld == InitOld /\ [][NextOld]_vars

(***************************************************************************)
(* _normalize_excessive_values on its own, on small arrays whose values    *)
(* lie around the two ends of the colouring range                          *)
(***************************************************************************)
\* columns of the array
MaxNormCells == 2

PlotTypes == {"Strain", "MyocardialWork"}

\* values below, at, inside, and above the colouring range of a plot type
NormCandidates(ptype) ==
  LET nv == norm_values(ptype)
      lo == SetMin({nv[1], nv[2]})
      hi == SetMax({nv[1], nv[2]})
  IN  { FromInt(lo - 7), Num(lo - 1, 1, 2), FromInt(lo), Num(lo, 1, 3),
        Num(hi - 1, 2, 3), FromInt(hi), Num(hi, 1, 4), FromInt(hi + 12) }

InitNormalize ==
  /\ plot_type \in PlotTypes
  /\ interpolated_data \in
       { [t \in 0..0 |-> row] :
           row \in [0..(MaxNormCells - 1) -> NormCandidates(plot_type)] }
  /\ data_before = interpolated_data
  /\ pc = "normalize"
  /\ error = "none"
  /\ segments = <<>>
  /\ segmental_values = <<>>
  /\ grid = <<>>
  /\ regional_values = <<>>
  /\ interpolated_array = <<>>
  /\ stacked = <<>>
  /\ along_x = <<>>
  /\ InitRepeatVars /\ InitPlotVars /\ InitLegacyVars /\ InitBoundsVars
  /\ InitWidgetVars /\ InitSliceVars

\* along_x_y = self._normalize_excessive_values(along_x_y): the array is
\* changed in place and returned
NormalizeCall ==
  /\ pc = "normalize"
  /\ interpolated_data' = NormalizeExcessiveValues(interpolated_data, plot_type)
  /\ grid' = interpolated_data'
  /\ pc' = "normalized"
  /\ UNCHANGED <<segments, plot_type, error, segmental_values,
                 regional_values, interpolated_array, stacked, along_x,
                 repeatVars, plotVars, legacyVars, data_before, boundsVars,
                 widgetVars, sliceVars>>

NextNormalize == NormalizeCall

SpecNormalize == InitNormalize /\ [][NextNormalize]_vars

(***************************************************************************)
(* AHAPlotBounds (aha/aha_plot_bounds.py): construction, the n_segments    *)
(* setter, draw_aha_bounds, and _draw_bounds called with any arguments     *)
(***************************************************************************)
\* radial levels are held in 1/BoundScale of the plot radius
BoundScale == 300

\* AHA_FEATURES[n]["bounds"]: linspace(0.2, 1, 4) and linspace(0.38, 1, 3)
AHA_FEATURES_bounds(n) ==
  IF n = 17 THEN <<60, 140, 220, 300>> ELSE <<114, 207, 300>>

\* PLOT_COMPONENTS["bound_range"]
BoundRangeInner == 0

BoundRangeOuter == BoundScale

\* Alignment.border_shift_functions[n_borders](x), in degrees
BorderShift(n_borders, x) == IF n_borders = 4 THEN x * 90 - 45 ELSE x * 60

\* the lines plotted by the loop of _draw_bounds
BorderLines(inner, outer, n_borders) ==
  [b \in 1..n_borders |->
     [kind |-> "border", angle |-> BorderShift(n_borders, b - 1),
      inner |-> inner, outer |-> outer]]

\* the lines plotted by _draw_radial_bounds
RadialLines(bounds) ==
  [b \in 1..Len(bounds) |->
     [kind |-> "circle", angle |-> 0, inner |-> bounds[b], outer |-> bounds[b]]]

\* equal inner and outer levels are let through
DrawBoundsOn_NonStrict(lines, inner, outer, n_borders) ==
  IF inner > outer THEN [error |-> "BoundValueError", lines |-> lines]
  ELSE IF n_borders \notin {4, 6} THEN [error |-> "BoundNumberError", lines |-> lines]
  ELSE [error |-> "none", lines |-> lines \o BorderLines(inner, outer, n_borders)]

\* _draw_bounds(inner, outer, n_borders) on axes holding `lines`
DrawBoundsOn(lines, inner, outer, n_borders) ==
  IF ~(inner < outer) THEN [error |-> "BoundValueError", lines |-> lines]
  ELSE IF n_borders \notin {4, 6} THEN [error |-> "BoundNumberError", lines |-> lines]
  ELSE [error |-> "none", lines |-> lines \o BorderLines(inner, outer, n_borders)]

\* _draw_bounds calls made on one object
MaxDrawCalls == 2

\* largest number of borders asked for
MaxBorders == 7

BorderInputs == 3..MaxBorders

\* levels handed to _draw_bounds
BoundLevelInputs == {BoundRangeInner, AHA_FEATURES_bounds(17)[2], BoundRangeOuter}

BoundsCounts == (17 - MaxMissing)..(18 + MaxExtra)

InitBounds ==
  /\ n_arg \in BoundsCounts
  /\ held_n_segments = 0
  /\ ax = <<>>
  /\ call = NoCall
  /\ pc = "bounds_start"
  /\ error = "none"
  /\ plot_type = "Strain"
  /\ segments = <<>>
  /\ segmental_values = <<>>
  /\ grid = <<>>
  /\ regional_values = <<>>
  /\ interpolated_array = <<>>
  /\ stacked = <<>>
  /\ along_x = <<>>
  /\ InitRepeatVars /\ InitPlotVars /\ InitLegacyVars /\ InitNormVars
  /\ InitWidgetVars /\ InitSliceVars

boundsFrame == <<segments, plot_type, segmental_values, grid, regional_values,
                 interpolated_array, stacked, along_x, repeatVars, plotVars,
                 legacyVars, normVars, widgetVars, sliceVars, n_arg>>

\* AHAPlotBounds.__init__: the field is assigned directly (the setter is not
\* run), then AHA_FEATURES is indexed with str(n), which has the keys "17"
\* and "18" only
ConstructBounds ==
  /\ pc = "bounds_start"
  /\ held_n_segments' = n_arg
  /\ IF n_arg \in FeatureKeys
     THEN pc' = "bounds_built" /\ error' = "none"
     ELSE pc' = "bounds_failed" /\ error' = "KeyError"
  /\ UNCHANGED <<boundsFrame, ax, call>>

\* obj.n_segments = n: the setter raises for a count other than 17 and 18
\* and otherwise returns without assigning
SetNSegments ==
  /\ pc = "bounds_built"
  /\ \E n \in BoundsCounts :
       IF n \notin {17, 18}
       THEN pc' = "bounds_failed" /\ error' = "SegmentSizeError"
       ELSE UNCHANGED <<pc, error>>
  /\ UNCHANGED <<boundsFrame, held_n_segments, ax, call>>

\* obj._draw_bounds(inner, outer, n_borders)
DrawBoundsCall ==
  /\ pc = "bounds_built"
  /\ call.count < MaxDrawCalls
  /\ \E inner \in BoundLevelInputs, outer \in BoundLevelInputs, n_borders \in BorderInputs :
       LET r == DrawBoundsOn(ax, inner, outer, n_borders)
       IN  /\ call' = [inner |-> inner, outer |-> outer, n_borders |-> n_borders,
                       lines_before |-> ax, count |-> call.count + 1]
           /\ ax' = r.lines
           /\ error' = r.error
           /\ pc' = IF r.error = "none" THEN "bounds_built" ELSE "bounds_failed"
  /\ UNCHANGED <<boundsFrame, held_n_segments>>

\* draw_aha_bounds: _draw_radial_bounds, _draw_outer_bounds, _draw_inner_bounds
DrawAhaBounds ==
  /\ pc = "bounds_built"
  /\ call.count < MaxDrawCalls
  /\ LET bounds == AHA_FEATURES_bounds(held_n_segments)
         radial == ax \o RadialLines(bounds)
         outer_ok == BoundRangeInner <= bounds[2] /\ bounds[2] <= BoundRangeOuter
         r_outer == DrawBoundsOn(radial, bounds[2], BoundRangeOuter, 6)
         inner_ok == held_n_segments # 17
                       \/ (BoundRangeInner <= bounds[1] /\ bounds[1] <= BoundRangeOuter)
         in_start == IF held_n_segments = 17 THEN bounds[1] ELSE BoundRangeInner
         in_borders == IF held_n_segments = 17 THEN 4 ELSE 6
         r_inner == DrawBoundsOn(r_outer.lines, in_start, bounds[2], in_borders)
     IN  IF ~outer_ok
         THEN /\ ax' = radial /\ error' = "BoundValueError" /\ pc' = "bounds_failed"
              /\ UNCHANGED call
         ELSE IF r_outer.error # "none"
         THEN /\ ax' = r_outer.lines /\ error' = r_outer.error /\ pc' = "bounds_failed"
              /\ call' = [inner |-> bounds[2], outer |-> BoundRangeOuter, n_borders |-> 6,
                          lines_before |-> radial, count |-> call.count + 1]
         ELSE IF ~inner_ok
         THEN /\ ax' = r_outer.lines /\ error' = "BoundValueError" /\ pc' = "bounds_failed"
              /\ call' = [inner |-> bounds[2], outer |-> BoundRangeOuter, n_borders |-> 6,
                          lines_before |-> radial, count |-> call.count + 1]
         ELSE /\ ax' = r_inner.lines
              /\ error' = r_inner.error
              /\ pc' = IF r_inner.error = "none" THEN "bounds_built" ELSE "bounds_failed"
              /\ call' = [inner |-> in_start, outer |-> bounds[2], n_borders |-> in_borders,
                          lines_before |-> r_outer.lines, count |-> call.count + 1]
  /\ UNCHANGED <<boundsFrame, held_n_segments>>

NextBounds == ConstructBounds \/ SetNSegments \/ DrawBoundsCall \/ DrawAhaBounds

SpecBounds == InitBounds /\ [][NextBounds]_vars

(***************************************************************************)
(* Widget (aha_widget/central_widget.py) once it has been built: the next  *)
(* and previous buttons, update_view and _remove_old_canvas                *)
(***************************************************************************)
\* cases of a data set
MaxCases == 3

\* canvases made on one widget, the one of __init__ included
MaxCanvases == 5

CaseNames == <<"Cid1", "Cid2", "Cid3", "Cid4", "Cid5">>

CaseIds == {CaseNames[k] : k \in 1..MaxCases}

\* the index of a data frame: distinct identifiers, "Cid1" among them (the
\* row that CustomTableModel.load_data reads by default)
DataSets ==
  { idx \in UNION {[1..n -> CaseIds] : n \in 1..MaxCases} :
      /\ \A p, q \in 1..Len(idx) : p # q => idx[p] # idx[q]
      /\ \E p \in 1..Len(idx) : idx[p] = "Cid1" }

\* self._data.index.get_loc(case_id), 0-based
GetLoc(index, id) == (CHOOSE p \in 1..Len(index) : index[p] = id) - 1

\* the last case is followed by itself
NextIndex_StopAtLast(case_index, n_cases) ==
  IF case_index # n_cases - 1 THEN case_index + 1 ELSE case_index

\* Widget._next
NextIndex(case_index, n_cases) ==
  IF case_index # n_cases - 1 THEN case_index + 1 ELSE 0

\* the first case is preceded by itself
PreviousIndex_StopAtFirst(case_index, n_cases) ==
  IF case_index # 0 THEN case_index - 1 ELSE 0

\* Widget._previous
PreviousIndex(case_index, n_cases) ==
  IF case_index # 0 THEN case_index - 1 ELSE n_cases - 1

\* get_plot: the figure drawn from the row of the case
GetPlot(id) == id

\* layout.takeAt(i), 0-based: the layout without item i, unchanged when
\* there is no item i
TakeAt(lay, i) ==
  IF i < 0 \/ i >= Len(lay) THEN lay
  ELSE SubSeq(lay, 1, i) \o SubSeq(lay, i + 2, Len(lay))

RECURSIVE TakeAll(_, _)
TakeAll(lay, idxs) ==
  IF idxs = <<>> THEN lay ELSE TakeAll(TakeAt(lay, Head(idxs)), Tail(idxs))

\* the items are taken from the first to the last position
RemoveOldCanvas_Forward(lay) ==
  TakeAll(lay, [p \in 1..Len(lay) |-> p - 1])

\* _remove_old_canvas: for i in reversed(range(self.layout.count()))
RemoveOldCanvas(lay) ==
  TakeAll(lay, [p \in 1..Len(lay) |-> Len(lay) - p])

\* FigureCanvas number k showing the figure of a case
Canvas(k, id) == [id |-> k, figure |-> GetPlot(id)]

\* update_view: the layout after it
UpdateViewLayout(lay, k) ==
  RemoveOldCanvas(lay) \o <<[kind |-> "canvas", canvas |-> k],
                            [kind |-> "toolbar", canvas |-> k]>>

\* the widget after __init__
InitWidget ==
  /\ data_index \in DataSets
  /\ case_id \in {data_index[p] : p \in 1..Len(data_index)}
  /\ table_model = [case |-> "Cid1"]
  /\ case_label = case_id
  /\ aha_plot_canvas = Canvas(1, case_id)
  /\ layout = <<[kind |-> "canvas", canvas |-> 1], [kind |-> "toolbar", canvas |-> 1]>>
  /\ made = 1
  /\ trail = <<>>
  /\ pc = "widget_ready"
  /\ error = "none"
  /\ plot_type = "Strain"
  /\ segments = <<>>
  /\ segmental_values = <<>>
  /\ grid = <<>>
  /\ regional_values = <<>>
  /\ interpolated_array = <<>>
  /\ stacked = <<>>
  /\ along_x = <<>>
  /\ InitRepeatVars /\ InitPlotVars /\ InitLegacyVars /\ InitNormVars
  /\ InitBoundsVars /\ InitSliceVars

widgetFrame == <<segments, plot_type, error, segmental_values, grid,
                 regional_values, interpolated_array, stacked, along_x,
                 repeatVars, plotVars, legacyVars, normVars, boundsVars,
                 sliceVars, data_index, table_model>>

WidgetBuilt == pc \in {"widget_ready", "canvas_removed"}

\* update_case_id(direction): new index, new case_id, update_case_label,
\* update_view
UpdateCaseId(direction) ==
  /\ LET current_case_index == GetLoc(data_index, case_id)
         new_index == IF direction = "next"
                      THEN NextIndex(current_case_index, Len(data_index))
                      ELSE PreviousIndex(current_case_index, Len(data_index))
     IN  /\ case_id' = data_index[new_index + 1]
         /\ trail' = Append(trail, [direction |-> direction,
                                    from |-> current_case_index, to |-> new_index])
  /\ case_label' = case_id'
  /\ layout' = UpdateViewLayout(layout, made + 1)
  /\ aha_plot_canvas' = Canvas(made + 1, case_id')
  /\ made' = made + 1
  /\ pc' = "widget_ready"
  /\ UNCHANGED widgetFrame

\* next_button.clicked
PressNext ==
  /\ WidgetBuilt
  /\ made < MaxCanvases
  /\ UpdateCaseId("next")

\* previous_button.clicked
PressPrevious ==
  /\ WidgetBuilt
  /\ made < MaxCanvases
  /\ UpdateCaseId("previous")

\* update_view called on its own
UpdateView ==
  /\ WidgetBuilt
  /\ made < MaxCanvases
  /\ layout' = UpdateViewLayout(layout, made + 1)
  /\ aha_plot_canvas' = Canvas(made + 1, case_id)
  /\ made' = made + 1
  /\ pc' = "widget_ready"
  /\ UNCHANGED <<widgetFrame, case_id, case_label, trail>>

\* _remove_old_canvas called on its own
RemoveOldCanvasCall ==
  /\ pc = "widget_ready"
  /\ layout' = RemoveOldCanvas(layout)
  /\ pc' = "canvas_removed"
  /\ UNCHANGED <<widgetFrame, case_id, case_label, aha_plot_canvas, made, trail>>

NextWidget == PressNext \/ PressPrevious \/ UpdateView \/ RemoveOldCanvasCall

SpecWidget == InitWidget /\ [][NextWidget]_vars

(***************************************************************************)
(* _interpolate_directions with PLOT_COMPONENTS["resolution"][0] set to    *)
(* any small positive number                                               *)
(***************************************************************************)
\* largest angular resolution tried
MaxResolution == 24

\* the np.linspace samples of wedge i can be assigned to its slice: equal
\* lengths, or a single sample (which numpy broadcasts)
FitsAt(res, k, i) ==
  \/ res \div k = 1
  \/ SliceHi(res, k, i) - SliceLo(res, k, i) = res \div k

\* the wedges assigned before the loop ends or fails
WedgesWritten(res, k) ==
  LET failing == {i \in 0..(k - 1) : ~FitsAt(res, k, i)}
  IN  IF failing = {} THEN 0..(k - 1) ELSE 0..(SetMin(failing) - 1)

InitSlices ==
  /\ resolution \in 1..MaxResolution
  /\ regional_values \in Rings
  /\ write_count = [j \in 0..(resolution - 1) |-> 0]
  /\ interpolated_array = <<>>
  /\ pc = "slices"
  /\ error = "none"
  /\ plot_type = "Strain"
  /\ segments = <<>>
  /\ segmental_values = <<>>
  /\ grid = <<>>
  /\ stacked = <<>>
  /\ along_x = <<>>
  /\ InitRepeatVars /\ InitPlotVars /\ InitLegacyVars /\ InitNormVars
  /\ InitBoundsVars /\ InitWidgetVars

\* _interpolate_directions(regional_values) under the resolution
InterpolateDirectionsAt ==
  /\ pc = "slices"
  /\ LET k == Len(regional_values)
         written == WedgesWritten(resolution, k)
         complete == written = 0..(k - 1)
     IN  /\ write_count' =
               [j \in 0..(resolution - 1) |->
                  Cardinality({i \in written :
                                 SliceLo(resolution, k, i) <= j
                                   /\ j < SliceHi(resolution, k, i)})]
         /\ interpolated_array' =
               IF complete THEN Array(InterpolateDirections(regional_values, resolution))
               ELSE <<>>
         /\ error' = IF complete THEN "none" ELSE "ValueError"
         /\ pc' = IF complete THEN "slices_done" ELSE "slices_failed"
  /\ UNCHANGED <<segments, plot_type, segmental_values, grid, regional_values,
                 stacked, along_x, repeatVars, plotVars, legacyVars,
                 normVars, boundsVars, widgetVars, resolution>>

NextSlices == InterpolateDirectionsAt

SpecSlices == InitSlices /\ [][NextSlices]_vars

(***************************************************************************)
(* Properties                                                              *)
(***************************************************************************)
Constructed == pc \in {"constructed", "interpolated"}

Interpolated == pc = "interpolated"

CanonicalNameSet(n) == SeqRange(AHA_FEATURES_names(n))

\* C1: the grid returned by interpolate_aha_values has exactly
\* radial_resolution rows (100) of angular_resolution columns (768) each,
\* for 17 and for 18 segments alike.
C1_GridShape ==
  Interpolated =>
    /\ Len(segmental_values) \in {17, 18}
    /\ DOMAIN grid = 0..(RadialResolution - 1)
    /\ ArrayLen(grid) = 100
    /\ \A t \in DOMAIN grid :
         DOMAIN grid[t] = 0..(AngularResolution - 1) /\ ArrayLen(grid[t]) = 768

C1_Witness ==
  /\ Interpolated
  /\ Len(segmental_values) = 18
  /\ ArrayLen(grid) = 100
  /\ ArrayLen(grid[99]) = 768

\* C2 (as claimed): constructing from a collection whose size is neither 17
\* nor 18 fails with SegmentSizeError, and no instance is produced.
C2_SizeErrorClaimed ==
  (pc # "start" /\ Len(segments) \notin {17, 18}) =>
    pc = "failed" /\ error = "SegmentSizeError" /\ segmental_values = <<>>

C4_AnyOrderClaimed ==
  (/\ pc # "start"
   /\ Len(segments) \in {17, 18}
   /\ KeySet(segments) = CanonicalNameSet(Len(segments)))
    => /\ Constructed
       /\ \A p \in 1..Len(segments) :
            <<AHA_FEATURES_names(Len(segments))[p], segmental_values[p]>>
              \in SeqRange(segments)

RangeMin == SetMin(SeqRange(norm_values(plot_type)))

RangeMax == SetMax(SeqRange(norm_values(plot_type)))

IntoRange(v) == IF v > RangeMax THEN RangeMax ELSE IF v < RangeMin THEN RangeMin ELSE v

Columns == 0..(AngularResolution - 1)

Rows == 0..(RadialResolution - 1)

\* C6 (as claimed): for every valid 17-value input the centre row of the
\* grid holds the apex value (the 17th value) at every angular index.
C6_CentreIsApexClaimed ==
  (Interpolated /\ Len(segmental_values) = 17) =>
    \A j \in Columns : NumIsInt(grid[0][j], segmental_values[17])

\* C6 (amended): for every valid 17-value input the centre row holds, at
\* every angular index, the apex value brought into the colouring range of
\* the plot type (the apex value itself when it lies in the range); for the
\* scenario input ending in -26 the row is uniformly -26.
C6_CentreIsApex ==
  (Interpolated /\ Len(segmental_values) = 17) =>
    /\ \A j \in Columns : NumIsInt(grid[0][j], IntoRange(segmental_values[17]))
    /\ (segmental_values = Scenario17 /\ plot_type = "Strain") =>
         \A j \in Columns : NumIsInt(grid[0][j], -26)

C6_Witness ==
  /\ Interpolated
  /\ segmental_values = Scenario17
  /\ NumIsInt(grid[0][0], -26)
  /\ NumIsInt(grid[0][767], -26)

\* the mean of the six apical values of an 18-value input, as i + n/6
ApicalSum == SeqSum(SubSeq(segmental_values, 13, 18))

ApicalMean == [i |-> ApicalSum \div 6, n |-> ApicalSum % 6, d |-> 6]

ApicalMeanInRange ==
  IF ApicalSum > 6 * RangeMax THEN FromInt(RangeMax)
  ELSE IF ApicalSum < 6 * RangeMin THEN FromInt(RangeMin) ELSE ApicalMean

\* C7 (as claimed): for every valid 18-value input the centre row equals, at
\* every angular index, the arithmetic mean of the six apical values.
C7_CentreIsMeanClaimed ==
  (Interpolated /\ Len(segmental_values) = 18) =>
    \A j \in Columns : NumEq(grid[0][j], ApicalMean)

\* C7 (amended): for every valid 18-value input the centre row equals, at
\* every angular index, the mean of the six apical values brought into the
\* colouring range of the plot type; it is exactly 10 when all six are 10
\* and exactly 10.5 for the apical values 8, 9, 10, 11, 12, 13.
C7_CentreIsMean ==
  (Interpolated /\ Len(segmental_values) = 18) =>
    /\ \A j \in Columns : NumEq(grid[0][j], ApicalMeanInRange)
    /\ (SubSeq(segmental_values, 13, 18) = <<10, 10, 10, 10, 10, 10>>
          /\ plot_type = "Strain") =>
         \A j \in Columns : NumIsInt(grid[0][j], 10)
    /\ (SubSeq(segmental_values, 13, 18) = <<8, 9, 10, 11, 12, 13>>
          /\ plot_type = "Strain") =>
         \A j \in Columns : grid[0][j].i = 10 /\ 2 * grid[0][j].n = grid[0][j].d

C7_Witness ==
  /\ Interpolated
  /\ Len(segmental_values) = 18
  /\ SubSeq(segmental_values, 13, 18) = <<8, 9, 10, 11, 12, 13>>
  /\ grid[0][0].i = 10
  /\ 2 * grid[0][0].n = grid[0][0].d

\* n1/d1 <= n2/d2 for n1, n2 >= 0 and d1, d2 > 0, without multiplying
RECURSIVE FracLeq(_, _, _, _)
FracLeq(n1, d1, n2, d2) ==
  LET q1 == n1 \div d1
      q2 == n2 \div d2
      r1 == n1 % d1
      r2 == n2 % d2
  IN  IF q1 # q2 THEN q1 < q2
      ELSE IF r1 = 0 THEN TRUE
      ELSE IF r2 = 0 THEN FALSE
      ELSE FracLeq(d2, r2, d1, r1)

ScenarioDone ==
  Interpolated /\ segmental_values = Scenario17 /\ plot_type = "Strain"

\* C8 (as claimed): for the 17-segment strain scenario at the default
\* resolution the minimum over the whole grid equals -28: some cell holds
\* -28 and no cell is smaller.
C8_MinIsRawClaimed ==
  ScenarioDone =>
    /\ \E t \in Rows : \E j \in Columns : NumIsInt(grid[t][j], -28)
    /\ \A t \in Rows : \A j \in Columns : ~NumLT(grid[t][j], -28)

\* C8 (amended): for that input the minimum over the whole grid is
\* -28 + 25594/623997 (about -27.959), at radial index 32 and angular
\* index 576; no cell holds -28, because no radial sample falls on the
\* apical anchor 0.33.
C8_MinAboveRaw ==
  ScenarioDone =>
    /\ grid[32][576] = [i |-> -28, n |-> 25594, d |-> 623997]
    /\ \A t \in Rows : \A j \in Columns :
         \/ grid[t][j].i > -28
         \/ grid[t][j].i = -28 /\ FracLeq(25594, 623997, grid[t][j].n, grid[t][j].d)

C8_Witness ==
  /\ ScenarioDone
  /\ grid[32][576].i = -28
  /\ 20 * grid[32][576].n < grid[32][576].d

\* C9: for a ring of 4 or 6 values at the default angular resolution the
\* array of _interpolate_directions holds the first raw value at angular
\* index 0 and again at the last index, where the last wedge ends.
C9_Wraparound ==
  pc = "ring_done" =>
    /\ Len(regional_values) \in {4, 6}
    /\ NumIsInt(interpolated_array[0], regional_values[1])
    /\ NumIsInt(interpolated_array[AngularResolution - 1], regional_values[1])
    /\ NumEq(interpolated_array[AngularResolution - 1], interpolated_array[0])

C9_Witness ==
  /\ pc = "ring_done"
  /\ Len(regional_values) = 4
  /\ regional_values[4] # regional_values[1]
  /\ NumIsInt(interpolated_array[767], regional_values[1])
  /\ ~NumIsInt(interpolated_array[766], regional_values[1])

\* the angular sample of the centre of basal wedge i (0-based)
WedgeCentre(i) ==
  ((i * AngularResolution) \div 6 + AngularResolution \div 4) % AngularResolution

\* C10 (as claimed): for every valid input and every basal segment i the
\* outermost row, at the angular sample of the centre of wedge i, equals the
\* raw value of basal segment i.
C10_BasalRecoveredClaimed ==
  Interpolated =>
    \A i \in 0..5 :
      NumIsInt(grid[RadialResolution - 1][WedgeCentre(i)], segmental_values[i + 1])

\* C10 (amended): ... equals the raw value of basal segment i brought into
\* the colouring range of the plot type (the raw value itself when it lies
\* in the range).
C10_BasalRecovered ==
  Interpolated =>
    \A i \in 0..5 :
      NumIsInt(grid[RadialResolution - 1][WedgeCentre(i)],
               IntoRange(segmental_values[i + 1]))

C10_Witness ==
  /\ Interpolated
  /\ segmental_values = ExpMw18
  /\ NumIsInt(grid[99][192], 1926)
  /\ NumIsInt(grid[99][64], 2200)

\* numerator of a number over its own denominator
Numer(x) == x.i * x.d + x.n

RingDone == pc = "ring_done"

\* samples of one wedge of a ring of k raw values
SamplesPerWedge(k) == AngularResolution \div k

\* C11: in the array returned by _interpolate_directions, the samples of
\* wedge i start at raw value i, end at raw value (i + 1) mod k, advance by
\* one equal step (the difference of the two raw values over the number of
\* samples less one), are monotonic and lie between the two raw values.
C11_WedgeLinear ==
  RingDone =>
    LET k == Len(regional_values)
        per == SamplesPerWedge(k)
    IN  \A i \in 0..(k - 1) :
          LET a == regional_values[i + 1]
              b == regional_values[((i + 1) % k) + 1]
              lo == IF a <= b THEN a ELSE b
              hi == IF a <= b THEN b ELSE a
          IN  /\ NumIsInt(interpolated_array[per * i], a)
              /\ NumIsInt(interpolated_array[per * i + per - 1], b)
              /\ \A s \in 0..(per - 2) :
                   LET x == interpolated_array[per * i + s]
                       y == interpolated_array[per * i + s + 1]
                   IN  /\ x.d = y.d
                       /\ (Numer(y) - Numer(x)) * (per - 1) = (b - a) * x.d
                       /\ (a <= b) => Numer(x) <= Numer(y)
                       /\ (a >= b) => Numer(x) >= Numer(y)
              /\ \A s \in 0..(per - 1) :
                   LET x == interpolated_array[per * i + s]
                   IN  /\ x.i >= lo
                       /\ x.i < hi \/ NumIsInt(x, hi)

\* a ring with a rising and a falling wedge has been interpolated
C11_Witness ==
  /\ RingDone
  /\ Len(regional_values) = 6
  /\ regional_values[1] < regional_values[2]
  /\ regional_values[6] > regional_values[1]
  /\ NumGT(interpolated_array[1], regional_values[1])
  /\ NumLT(interpolated_array[1], regional_values[2])
  /\ NumIsInt(interpolated_array[AngularResolution - 1], regional_values[1])

StackedRows == 0..4

\* C12: the layer stacked between the basal and the mid ring equals
\* (3 * basal + mid) / 4 at every angular index, for 17 and for 18 segments
\* alike.
C12_BlendedLayer ==
  Interpolated =>
    \A j \in Columns :
      LET basal == stacked[0][j]
          blend == stacked[1][j]
          mid   == stacked[2][j]
      IN  /\ basal.d = mid.d
          /\ Numer(blend) * 4 * basal.d = (3 * Numer(basal) + Numer(mid)) * blend.d

\* the blended layer of an 18-segment input lies strictly between a basal
\* and a mid sample that differ
C12_Witness ==
  /\ Interpolated
  /\ Len(segmental_values) = 18
  /\ NumIsInt(stacked[0][0], segmental_values[1])
  /\ NumIsInt(stacked[2][0], segmental_values[7])
  /\ segmental_values[7] < segmental_values[1]
  /\ NumGT(stacked[1][0], segmental_values[7])
  /\ NumLT(stacked[1][0], segmental_values[1])

\* int(resolution[0] / 4)
QuarterTurn == AngularResolution \div 4

\* C13: every stacked row is moved by the same quarter of the angular
\* resolution: after the roll, index j of a row holds what index
\* (j - res/4) mod res of that row held before, and the indices read are all
\* the indices once each, so no value is lost or duplicated.  (along_x is
\* held after the flip, which puts stacked row r at position 4 - r.)
C13_QuarterRoll ==
  Interpolated =>
    /\ 4 * QuarterTurn = AngularResolution
    /\ \A r \in StackedRows : \A j \in Columns :
         along_x[4 - r][j] = stacked[r][(j - QuarterTurn) % AngularResolution]
    /\ {(j - QuarterTurn) % AngularResolution : j \in Columns} = Columns
    /\ \A r \in StackedRows : DOMAIN along_x[4 - r] = DOMAIN stacked[r]

\* the roll has moved a basal value that differs from its neighbour ring
\* position: the first basal raw value sits at a quarter turn, not at 0
C13_Witness ==
  /\ Interpolated
  /\ NumIsInt(stacked[0][0], segmental_values[1])
  /\ NumIsInt(along_x[4][QuarterTurn], segmental_values[1])
  /\ along_x[4][0] # stacked[0][0]
  /\ along_x[4][0] = stacked[0][AngularResolution - QuarterTurn]

\* equality of two numbers whatever their denominators
SameValue(x, y) ==
  /\ x.i = y.i
  /\ FracLeq(x.n, x.d, y.n, y.d)
  /\ FracLeq(y.n, y.d, x.n, x.d)

\* the value on the straight line from y_lo at level l_lo to y_hi at level
\* l_hi (hundredths) at radius t / (RadialResolution - 1), as the weighted
\* mean ((q - p) * y_lo + p * y_hi) / q
OnLine(y_lo, y_hi, l_lo, l_hi, t) ==
  LET p == LevelScale * t - l_lo * (RadialResolution - 1)
      q == (l_hi - l_lo) * (RadialResolution - 1)
  IN  NumAdd(NumMulRat(y_lo, q - p, q), NumMulRat(y_hi, p, q))

\* level l_lo <= t / (RadialResolution - 1) <= level l_hi
Brackets(l_lo, l_hi, t) ==
  /\ l_lo * (RadialResolution - 1) <= LevelScale * t
  /\ LevelScale * t <= l_hi * (RadialResolution - 1)

\* the apex row, then the first raw value of the apical ring, the mid ring,
\* the blend of basal and mid, and the basal ring, each a quarter turn on
RowsCentreOutwards ==
  LET n == Len(segmental_values)
      v == segmental_values
  IN  /\ \A j \in Columns :
           IF n = 17 THEN NumIsInt(along_x[0][j], v[17])
           ELSE along_x[0][j] = [i |-> ApicalSum \div 6, n |-> ApicalSum % 6, d |-> 6]
      /\ NumIsInt(along_x[1][QuarterTurn], v[13])
      /\ NumIsInt(along_x[2][QuarterTurn], v[7])
      /\ Numer(along_x[3][QuarterTurn]) * 4 = (3 * v[1] + v[7]) * along_x[3][QuarterTurn].d
      /\ NumIsInt(along_x[4][QuarterTurn], v[1])

\* C14 (as claimed): the five rows are anchored centre-outwards in the order
\* apex, apical, mid, blended, basal at levels (0, 0.33, 0.55, 0.85, 1) for
\* 17 segments and (0, 0.28, 0.5, 0.8, 1) for 18, and every row of the grid
\* is the linear interpolation, by radial distance, between the two rows
\* whose levels bracket its radius.
C14_AnchoredRowsClaimed ==
  Interpolated =>
    LET levels == IF Len(segmental_values) = 17
                  THEN <<0, 33, 55, 85, 100>> ELSE <<0, 28, 50, 80, 100>>
    IN  /\ RowsCentreOutwards
        /\ \A t \in Rows : \A k \in 1..4 :
             Brackets(levels[k], levels[k + 1], t) =>
               \A j \in Columns :
                 SameValue(grid[t][j],
                           OnLine(along_x[k - 1][j], along_x[k][j],
                                  levels[k], levels[k + 1], t))

\* C14 (amended): the same, each interpolated value limited to the colouring
\* range of the plot type.
C14_AnchoredRows ==
  Interpolated =>
    LET levels == IF Len(segmental_values) = 17
                  THEN <<0, 33, 55, 85, 100>> ELSE <<0, 28, 50, 80, 100>>
    IN  /\ RowsCentreOutwards
        /\ \A t \in Rows : \A k \in 1..4 :
             Brackets(levels[k], levels[k + 1], t) =>
               \A j \in Columns :
                 SameValue(grid[t][j],
                           Clamp(OnLine(along_x[k - 1][j], along_x[k][j],
                                        levels[k], levels[k + 1], t),
                                 RangeMin, RangeMax))

\* a 17-segment grid whose row 40 (radius 40/99, between the apical and the
\* mid level) lies strictly between the apical and the mid row
C14_Witness ==
  /\ Interpolated
  /\ Len(segmental_values) = 17
  /\ Brackets(33, 55, 40)
  /\ NumIsInt(along_x[1][QuarterTurn], segmental_values[13])
  /\ NumIsInt(along_x[2][QuarterTurn], segmental_values[7])
  /\ segmental_values[13] < segmental_values[7]
  /\ NumGT(grid[40][QuarterTurn], segmental_values[13])
  /\ NumLT(grid[40][QuarterTurn], segmental_values[7])

\* C15 (as claimed): interpolate_aha_values on a value sequence of a length
\* other than 17 and 18 fails with SegmentSizeError before any ring is
\* interpolated or any array is stacked, and returns no grid.
C15_SizeErrorFirstClaimed ==
  (pc # "direct" /\ segments = <<>> /\ Len(segmental_values) \notin {17, 18}) =>
    /\ pc = "failed"
    /\ error = "SegmentSizeError"
    /\ interpolated_array = <<>>
    /\ stacked = <<>>
    /\ along_x = <<>>
    /\ grid = <<>>

HandlerBuilt == extended_angular_coordinates # <<>>

\* C17 (as claimed): the angles of the grid's columns span the half-open
\* interval [0, 2*pi): column j is at j * 2*pi / angular_resolution and the
\* last column is short of the full turn.
C17_HalfOpenClaimed ==
  HandlerBuilt =>
    \A j \in Columns : \A t \in Rows :
      LET a == extended_angular_coordinates[j][t]
      IN  /\ Numer(a) * AngularResolution = j * a.d
          /\ NumLT(a, 1)

\* C17 (amended): the angles span the closed interval [0, 2*pi]: column j
\* is at j * 2*pi / (angular_resolution - 1), so column 0 is at 0 and the
\* last column at the full turn, the same direction.
C17_ClosedInterval ==
  HandlerBuilt =>
    /\ DOMAIN extended_angular_coordinates = Columns
    /\ \A j \in Columns : \A t \in Rows :
         LET a == extended_angular_coordinates[j][t]
         IN  Numer(a) * (AngularResolution - 1) = j * a.d
    /\ \A t \in Rows :
         /\ NumIsInt(extended_angular_coordinates[0][t], 0)
         /\ NumIsInt(extended_angular_coordinates[AngularResolution - 1][t], 1)

C17_Witness ==
  /\ HandlerBuilt
  /\ NumIsInt(extended_angular_coordinates[AngularResolution - 1][0], 1)
  /\ NumGT(extended_angular_coordinates[1][0], 0)
  /\ NumLT(extended_angular_coordinates[AngularResolution - 2][0], 1)

\* integer values as the plotting tests draw them: strain in [-30, 10),
\* myocardial work in [1000, 3000)
InTestRange ==
  \A p \in 1..Len(segmental_values) :
    IF plot_type = "Strain"
    THEN -30 <= segmental_values[p] /\ segmental_values[p] < 10
    ELSE 1000 <= segmental_values[p] /\ segmental_values[p] < 3000

\* C20 (as claimed): for a canonical 17- or 18-name mapping with such
\* values, bullseye_smooth(True) runs annotation, bounds drawing,
\* interpolation, colouring and colour bar to completion, without an error
\* or a failed assertion.
C20_PlotCompletesClaimed ==
  (pc \notin {"start", "constructed", "interpolated"}
     /\ Keys(segments) \in CanonicalKeys /\ segmental_values # <<>> /\ InTestRange)
    => pc = "plotted" /\ error = "none"

\* every raw value lies in the colouring range of the plot type
ValuesInRange ==
  \A p \in 1..Len(segmental_values) :
    RangeMin <= segmental_values[p] /\ segmental_values[p] <= RangeMax

BothInterpolated == Interpolated /\ full_map_interp # <<>>

\* C18: for a 17- or 18-value input whose values all lie in the colouring
\* range, the grid of the historical _interpolate_17_aha_values /
\* _interpolate_18_aha_values equals the grid of the current
\* interpolate_aha_values at every (radius, angle) cell.
C18_SameAsHistorical ==
  (BothInterpolated /\ ValuesInRange) =>
    /\ DOMAIN full_map_interp = DOMAIN grid
    /\ \A t \in Rows :
         /\ DOMAIN full_map_interp[t] = DOMAIN grid[t]
         /\ \A j \in Columns : SameValue(full_map_interp[t][j], grid[t][j])

\* both grids exist for an in-range 18-value input with a fractional centre
C18_Witness ==
  /\ BothInterpolated
  /\ ValuesInRange
  /\ segmental_values = Apical18
  /\ full_map_interp[0][0].i = 10
  /\ 2 * full_map_interp[0][0].n = full_map_interp[0][0].d
  /\ ~NumIsInt(full_map_interp[40][QuarterTurn + 1], segmental_values[13])

\* C19 (as claimed): the AHAInterpolation of smooth_aha_plot.py records the
\* number of values it is given and interpolates with the levels of that
\* number: 17 and (0, 0.33, 0.55, 0.85, 1) for 17 values, 18 and
\* (0, 0.28, 0.5, 0.8, 1) for 18 values.
C19_LevelsMatchCountClaimed ==
  pc \in {"old_constructed", "old_interpolated"} =>
    /\ Len(segmental_values) = 17 =>
         n_segments = 17 /\ plot_levels = <<0, 33, 55, 85, 100>>
    /\ Len(segmental_values) = 18 =>
         n_segments = 18 /\ plot_levels = <<0, 28, 50, 80, 100>>

Normalized == pc = "normalized"

\* C21: the array returned by _normalize_excessive_values has every value
\* between min(norm_values) and max(norm_values) of the plot type: a value
\* above the maximum has become the maximum, a value below the minimum has
\* become the minimum, and a value inside the range is unchanged; the array
\* handed in is the one returned
C21_BroughtIntoRange ==
  Normalized =>
    /\ DOMAIN grid = DOMAIN data_before
    /\ interpolated_data = grid
    /\ \A t \in DOMAIN grid :
         /\ DOMAIN grid[t] = DOMAIN data_before[t]
         /\ \A j \in DOMAIN grid[t] :
              LET x == data_before[t][j]
                  y == grid[t][j]
                  above == x.i > RangeMax \/ (x.i = RangeMax /\ x.n > 0)
                  below == x.i < RangeMin
              IN  /\ above => y = FromInt(RangeMax)
                  /\ below => y = FromInt(RangeMin)
                  /\ (~above /\ ~below) => y = x
                  /\ ~NumLT(y, RangeMin) /\ ~NumGT(y, RangeMax)

\* an array with one value above and one below the range of the plot type,
\* returned with the two ends of the range in their places
C21_Witness ==
  /\ Normalized
  /\ NumGT(data_before[0][0], RangeMax)
  /\ NumLT(data_before[0][1], RangeMin)
  /\ grid[0][0] = FromInt(RangeMax)
  /\ grid[0][1] = FromInt(RangeMin)

BoundsCalled == call.count > 0

\* C22: _draw_bounds raises BoundValueError when inner is not strictly
\* smaller than outer, and BoundNumberError when (inner being smaller than
\* outer) n_borders is neither 4 nor 6; whenever it raises, the axes hold
\* exactly the lines they held before the call; when it does not raise,
\* n_borders lines from inner to outer have been added
C22_RaisesBeforeDrawing ==
  (BoundsCalled /\ error # "SegmentSizeError") =>
    /\ ~(call.inner < call.outer) => error = "BoundValueError"
    /\ (call.inner < call.outer /\ call.n_borders \notin {4, 6}) =>
         error = "BoundNumberError"
    /\ call.n_borders \notin {4, 6} => error \in {"BoundValueError", "BoundNumberError"}
    /\ error \in {"BoundValueError", "BoundNumberError"} => ax = call.lines_before
    /\ (call.inner < call.outer /\ call.n_borders \in {4, 6}) =>
         /\ error = "none"
         /\ Len(ax) = Len(call.lines_before) + call.n_borders
         /\ SubSeq(ax, 1, Len(call.lines_before)) = call.lines_before
         /\ \A b \in (Len(call.lines_before) + 1)..Len(ax) :
              ax[b].inner = call.inner /\ ax[b].outer = call.outer

\* six borders are on the axes after a first call, and a second call with
\* equal inner and outer levels has raised and left the six lines alone
C22_Witness ==
  /\ call.count = 2
  /\ call.inner = call.outer
  /\ call.n_borders = 6
  /\ error = "BoundValueError"
  /\ Len(ax) = 6
  /\ ax = call.lines_before

\* C23 (as claimed): creating an AHAPlotBounds with a segment count other
\* than 17 or 18 is rejected with SegmentSizeError, and an AHAPlotBounds
\* object never holds a segment count outside {17, 18}
C23_CountRejectedClaimed ==
  /\ (pc # "bounds_start" /\ n_arg \notin {17, 18}) => error = "SegmentSizeError"
  /\ pc = "bounds_built" => held_n_segments \in {17, 18}

NCases == Len(data_index)

CaseIdSet == {data_index[p] : p \in 1..NCases}

\* C24 (as claimed): after every completed update_case_id (next or
\* previous) the table model, the case label and the plotted figure all show
\* the data of the widget's current case_id
C24_ViewShowsCurrentCaseClaimed ==
  (WidgetBuilt /\ trail # <<>>) =>
    /\ table_model.case = case_id
    /\ case_label = case_id
    /\ aha_plot_canvas.figure = case_id

\* C25: after any sequence of next and previous presses on a data set of
\* n >= 1 cases the current index is in 0..n-1 and case_id is one of the
\* identifiers of the data set; every press moved by one position, next from
\* the last case going to the first and previous from the first going to
\* the last
C25_IndexStaysValid ==
  WidgetBuilt =>
    /\ NCases >= 1
    /\ case_id \in CaseIdSet
    /\ GetLoc(data_index, case_id) \in 0..(NCases - 1)
    /\ trail # <<>> => data_index[trail[Len(trail)].to + 1] = case_id
    /\ \A k \in 1..Len(trail) :
         LET t == trail[k]
         IN  /\ t.to \in 0..(NCases - 1)
             /\ t.direction = "next" =>
                  t.to = (IF t.from = NCases - 1 THEN 0 ELSE t.from + 1)
             /\ t.direction = "previous" =>
                  t.to = (IF t.from = 0 THEN NCases - 1 ELSE t.from - 1)

\* three cases: next pressed on the last case, then previous on the first
C25_Witness ==
  /\ WidgetBuilt
  /\ NCases = 3
  /\ Len(trail) = 2
  /\ trail[1] = [direction |-> "next", from |-> 2, to |-> 0]
  /\ trail[2] = [direction |-> "previous", from |-> 0, to |-> 2]
  /\ case_id = data_index[3]

\* presses k..k+m-1 of the trail are all `direction`
RunOf(direction, k, m) ==
  /\ k + m - 1 <= Len(trail)
  /\ \A j \in k..(k + m - 1) : trail[j].direction = direction

\* C26: navigation is a cycle: previous undoes next and next undoes
\* previous, for every case index of the data set and for every two presses
\* in a row, and n presses of next in a row come back to the case they
\* started from after visiting every case once
C26_NavigationCycle ==
  WidgetBuilt =>
    /\ \A c \in 0..(NCases - 1) :
         /\ PreviousIndex(NextIndex(c, NCases), NCases) = c
         /\ NextIndex(PreviousIndex(c, NCases), NCases) = c
    /\ \A k \in 1..(Len(trail) - 1) :
         trail[k].direction # trail[k + 1].direction => trail[k + 1].to = trail[k].from
    /\ \A k \in 1..Len(trail) :
         RunOf("next", k, NCases) =>
           /\ trail[k + NCases - 1].to = trail[k].from
           /\ {trail[j].to : j \in k..(k + NCases - 1)} = 0..(NCases - 1)
           /\ \A i, j \in k..(k + NCases - 1) : i # j => trail[i].to # trail[j].to

\* three cases and three presses of next, back at the starting case
C26_Witness ==
  /\ WidgetBuilt
  /\ NCases = 3
  /\ Len(trail) = 3
  /\ RunOf("next", 1, 3)
  /\ trail[1].from = 1
  /\ case_id = data_index[2]

RawMin == SetMin(SeqRange(segmental_values))

RawMax == SetMax(SeqRange(segmental_values))

\* C28: whenever all raw values lie inside the colouring range of the plot
\* type, every value of the grid lies between the smallest and the largest
\* raw value, for 17 and for 18 segments
C28_NoOvershoot ==
  (Interpolated /\ ValuesInRange) =>
    \A t \in Rows : \A j \in Columns :
      ~NumLT(grid[t][j], RawMin) /\ ~NumGT(grid[t][j], RawMax)

\* the 17-value myocardial-work input, all inside 1000..3000: the smallest
\* raw value 1525 is reached on the outermost row, and the largest, 2961, is
\* approached (no sample falls on the apical level itself) on an inner row
C28_Witness ==
  /\ Interpolated
  /\ ValuesInRange
  /\ segmental_values = ExpMw17
  /\ RawMin = 1525 /\ RawMax = 2961
  /\ \E j \in Columns : NumIsInt(grid[RadialResolution - 1][j], 1525)
  /\ \E t \in Rows : \E j \in Columns : grid[t][j].i >= 2900 /\ NumLT(grid[t][j], 2961)

SlicesRun == pc \in {"slices_done", "slices_failed"}

\* the destination slice of wedge i, as a set of indices
SliceOf(i) ==
  LET k == Len(regional_values)
  IN  {j \in 0..(resolution - 1) :
         SliceLo(resolution, k, i) <= j /\ j < SliceHi(resolution, k, i)}

\* every slice has int(resolution / k) indices, the slices are pairwise
\* disjoint and cover 0..resolution-1, and every entry has been written once
WrittenExactlyOnce ==
  LET k == Len(regional_values)
  IN  /\ error = "none"
      /\ \A i \in 0..(k - 1) : Cardinality(SliceOf(i)) = resolution \div k
      /\ \A i, m \in 0..(k - 1) : i # m => SliceOf(i) \cap SliceOf(m) = {}
      /\ UNION {SliceOf(i) : i \in 0..(k - 1)} = 0..(resolution - 1)
      /\ \A j \in 0..(resolution - 1) : write_count[j] = 1

\* C29 (as claimed): in _interpolate_directions, for every positive angular
\* resolution and ring size k in {4, 6}, each wedge's destination slice has
\* exactly int(resolution / k) indices, the k slices are pairwise disjoint
\* and cover 0..resolution-1, so every entry is written exactly once
C29_WrittenOnceClaimed == SlicesRun => WrittenExactlyOnce

\* C29 (amended): the same for every angular resolution that is a multiple
\* of the ring size k (as the configured 768 is of 4 and of 6), and for no
\* other resolution
C29_WrittenOnce ==
  SlicesRun => (WrittenExactlyOnce <=> resolution % Len(regional_values) = 0)

\* a ring of six values under resolution 24: six slices of four indices
C29_Witness ==
  /\ pc = "slices_done"
  /\ resolution = 24
  /\ Len(regional_values) = 6
  /\ SliceOf(5) = 20..23
  /\ \A j \in 0..23 : write_count[j] = 1

====
